---- MODULE Spec2Model ----
(***************************************************************************)
(* Model of the accounts registry of src/src/accounts/AccountsContext.tsx  *)
(* (AccountsContextProvider): the React state `accounts` (an insertion-    *)
(* ordered Map of account objects), `selectedAccountId`, the two           *)
(* localStorage slots, and the asynchronous passes updateEthereumWallet,   *)
(* setPolkadotAccountsWithBalance, reinitializePolkadotAccountsWithBalance.*)
(*                                                                         *)
(* A state update together with the effects React runs for it (persist     *)
(* accounts, persist selectedAccountId) is one step.  An async function is *)
(* cut at its awaits: each step resolves one pending await and runs the    *)
(* code up to the next await or to the end of the function.                *)
(*                                                                         *)
(* Account objects are mutable and shared between Maps (new Map(prev) is a *)
(* shallow copy), so the Maps hold object ids and the objects live in      *)
(* `heap`.                                                                 *)
(***************************************************************************)
EXTENDS Integers, Sequences, FiniteSets, TLC

\* ------------------------------------------------------------------ bounds
MaxTasks == 2      \* async invocations in flight at once
MaxObjs == 5       \* live account objects
MaxIndex == 1      \* largest index passed to setSelectedAccountId
MaxEvents == 2     \* external events (user actions, connector and extension changes) in a run

\* ------------------------------------------------------------ value spaces
NoAddress == ""                    \* useAccount().address is undefined
EthAddrs == {"0xA", "0xB"}         \* addresses the Ethereum connector reports
Wallets == {"polkadot-js", "talisman"}
PolkaAddrs == {"5p1", "5p2"}       \* addresses in the wallet's own encoding
Undefined == "undefined"
NoBalance == -1                    \* `balance` not set on the object
Ethereum == "Ethereum"
Polkadot == "Polkadot"

\* Addresses a wallet extension can hold (a subset is present at any time);
\* "talisman" grants this domain no account.
WalletUniverse(w) ==
  IF w = "polkadot-js" THEN {"5p1", "5p2"} ELSE {}

\* Address.normalize.substrateAddress: the chain-neutral form of an address.
Normalize(a) ==
  CASE a = "5p1" -> "n1"
    [] a = "5p2" -> "n2"
    [] OTHER -> a

\* Address.extract.substrateOrMirrorIfEthereumNormalized: an Ethereum address
\* maps to its substrate mirror, a substrate address to its normal form.
substrateOrMirrorIfEthereumNormalized(a) ==
  CASE a = "0xA" -> "mA"
    [] a = "0xB" -> "mB"
    [] OTHER -> Normalize(a)

Keys == {"mA", "mB", "n1", "n2"}

\* The states of the chain the Balance Oracle reads.
Eras == {"before", "after"}

\* sdk.balance.get({address}): the response {available, decimals} for an
\* address in a chain state.
BalanceResponse(k, era) ==
  LET n == CASE k = "mA" -> 1 [] k = "mB" -> 2 [] k = "n1" -> 3 [] OTHER -> 4
  IN IF era = "before" THEN [available |-> 10 * n + 5, decimals |-> 1]
                       ELSE [available |-> n + 4, decimals |-> 0]

RECURSIVE Pow10(_)
Pow10(n) == IF n = 0 THEN 1 ELSE 10 * Pow10(n - 1)

\* Number(available) / Math.pow(10, Number(decimals)), held in thousandths
\* (1500 stands for 1.5).
ToBalance(resp) == (resp.available * 1000) \div Pow10(resp.decimals)

\* The signer handle the extension `w` hands out.
SignerOf(w) == <<"signer", w>>
NoSigner == <<>>
\* What JSON.stringify / JSON.parse leave of a signer object: its methods are
\* dropped, an undefined signer is omitted.
JsonSigner(s) == IF s = NoSigner THEN NoSigner ELSE <<"{}">>

\* ------------------------------------------------------------------- state
VARIABLES
  address,            \* useAccount().address
  sdk,                \* SdkContext.sdk is set
  accounts,           \* useState Map: sequence of [key, oid] in insertion order
  heap,               \* account objects by id
  selectedAccountId,  \* useState number
  selectedAccount,    \* useMemo of lines 85-88: an object id, 0 for undefined
  storage,            \* localStorage slots "accounts", "selectedAccountId"
  ext,                \* addresses each wallet extension currently reports
  chain,              \* the chain state the Balance Oracle answers from
  tasks,              \* async invocations suspended at an await
  last,               \* the last operation and the failure it raised or logged
  events              \* external events so far

vars == <<address, sdk, accounts, heap, selectedAccountId, selectedAccount, storage, ext, chain, tasks, last, events>>

\* An external event happens (a step of an invocation already in flight is none).
Event == events < MaxEvents /\ events' = events + 1

Oids == 1..MaxObjs
SelIndices == (0 - 1)..MaxIndex

NullObj ==
  [address |-> "null", normalizedAddress |-> "null", signerType |-> "null",
   walletType |-> "null", name |-> "null", signer |-> NoSigner, balance |-> NoBalance]

EmptyHeap == [o \in Oids |-> NullObj]

\* ------------------------------------------------------- Map<string, Account>
RECURSIVE SeqToSet(_)
SeqToSet(s) == IF s = <<>> THEN {} ELSE {Head(s)} \cup SeqToSet(Tail(s))

MapKeys(m) == { m[i].key : i \in 1..Len(m) }
MapHas(m, k) == \E i \in 1..Len(m) : m[i].key = k
MapIndex(m, k) == CHOOSE i \in 1..Len(m) : m[i].key = k

\* A buggy Map.set that always appends.
MapSetAppend(m, k, v) == Append(m, [key |-> k, val |-> v])

\* Map.prototype.set: an existing key keeps its position, a new key is appended.
MapSet(m, k, v) ==
  IF MapHas(m, k)
    THEN [m EXCEPT ![MapIndex(m, k)] = [key |-> k, val |-> v]]
    ELSE Append(m, [key |-> k, val |-> v])

\* new Map([...prev, ...batch])
RECURSIVE MapMerge(_, _)
MapMerge(prev, batch) ==
  IF batch = <<>> THEN prev
  ELSE MapMerge(MapSet(prev, Head(batch).key, Head(batch).val), Tail(batch))

\* The registry as readers see it: [key, account object] in insertion order.
View(m, h) == [i \in 1..Len(m) |-> [key |-> m[i].key, val |-> h[m[i].val]]]

\* [...accounts.values()][selectedAccountId]: the object at that position, or
\* undefined (0) when the array has no such index.
ValueAt(m, id) ==
  IF id >= 0 /\ id < Len(m) THEN m[id + 1].val ELSE 0

\* A buggy memo that lists only selectedAccountId as its dependency.
useMemoOnIndexOnly(memo, m, m2, id, id2) ==
  IF id2 # id THEN ValueAt(m2, id2) ELSE memo

\* useMemo(..., [selectedAccountId, accounts]), lines 85-88: recomputed in the
\* render after a dependency changed, else the value of the last render.
useMemo(memo, m, m2, id, id2) ==
  IF m2 # m \/ id2 # id THEN ValueAt(m2, id2) ELSE memo

\* The render that follows a step.
Render ==
  selectedAccount' =
    useMemo(selectedAccount, accounts, accounts', selectedAccountId, selectedAccountId')

\* ------------------------------------------------------------ localStorage
AbsentSlot == [kind |-> "absent", entries |-> <<>>, num |-> 0]
CorruptSlot == [kind |-> "corrupt", entries |-> <<>>, num |-> 0]

\* String(selectedAccountId) and Number(savedId).
NumberToString(n) == [kind |-> "string", entries |-> <<>>, num |-> n]
StringToNumber(slot) == slot.num

\* JSON.stringify of one account object: every own property is written, the
\* signer as JSON leaves it.
JsonAccount(rec) == [rec EXCEPT !.signer = JsonSigner(rec.signer)]

\* JSON.stringify([...accounts])
Stringify(m, h) ==
  [kind |-> "json",
   entries |-> [i \in 1..Len(m) |-> [key |-> m[i].key, val |-> JsonAccount(h[m[i].val])]],
   num |-> 0]

\* JSON.parse throws on the corrupt slot.
ParseThrows(slot) == slot.kind = "corrupt"

\* localStorage.getItem(...) is falsy.
NoItem(slot) == slot.kind = "absent"

\* A buggy persist effect that writes the snapshot also when it is empty.
PersistAccountsAlways(st, m, h) == [st EXCEPT !.accounts = Stringify(m, h)]

\* useEffect(..., [accounts]), lines 72-76.
PersistAccounts(st, m, h) ==
  IF Len(m) > 0 THEN [st EXCEPT !.accounts = Stringify(m, h)] ELSE st

\* useEffect(..., [selectedAccountId]), lines 92-94: runs when the value changed.
PersistSelected(st, old, new) ==
  IF new # old THEN [st EXCEPT !.selectedAccountId = NumberToString(new)] ELSE st

\* A buggy purge that removes every record.
PurgeAll(m, h) == <<>>

\* The updater of the disconnect effect, lines 179-187: delete every entry
\* whose signerType is Ethereum.
PurgeEthereum(m, h) ==
  SelectSeq(m, LAMBDA e : h[e.val].signerType # Ethereum)

\* A buggy disconnect effect that leaves localStorage alone.
FilterStorageNone(st) == st

\* The storage half of the disconnect effect, lines 189-200.
FilterStorage(st) ==
  IF NoItem(st.accounts) \/ ParseThrows(st.accounts) THEN st
  ELSE [st EXCEPT !.accounts.entries =
          SelectSeq(st.accounts.entries, LAMBDA e : e.val.signerType # Ethereum)]

\* ------------------------------------------------------------------- heap
RefsOfTask(t) ==
  { t.snap[i].val : i \in 1..Len(t.snap) } \cup { t.updated[i].val : i \in 1..Len(t.updated) }

Refs(m, tsks) ==
  { m[i].val : i \in 1..Len(m) } \cup UNION { RefsOfTask(t) : t \in tsks }

\* Objects nobody references are gone.
Collect(h, m, tsks) ==
  [o \in Oids |-> IF o \in Refs(m, tsks) THEN h[o] ELSE NullObj]

\* The n smallest ids outside `used`, ascending.
RECURSIVE FreshOids(_, _)
FreshOids(used, n) ==
  IF n = 0 THEN <<>>
  ELSE LET o == CHOOSE x \in Oids \ used : \A y \in Oids \ used : x <= y
       IN <<o>> \o FreshOids(used \cup {o}, n - 1)

CanAllocate(used, n) == Cardinality(Oids \ used) >= n

\* ------------------------------------------------------------------ tasks
NoTask ==
  [op |-> "none", phase |-> "none", addr |-> NoAddress, key |-> "", wallet |-> "",
   batch |-> <<>>, idx |-> 0, snap |-> <<>>, updated |-> <<>>, fetches |-> 0]

\* updateEthereumWallet suspended at `await sdk.balance.get`, line 102.
EthTask(a) ==
  [NoTask EXCEPT !.op = "eth", !.phase = "balance", !.addr = a,
                 !.key = substrateOrMirrorIfEthereumNormalized(a), !.fetches = 1]

NoError == <<>>
\* What the last step was: the operation, the wallet it was called for, the
\* failure it raised to its caller, what it logged, and a count (balance
\* fetches the invocation issued; records the purge removed).
Done(op, w, err, log, n) ==
  [op |-> op, wallet |-> w, err |-> err, log |-> log, count |-> n]

\* ------------------------------------------------------- wallet extensions
AddrOrder == <<"5p1", "5p2">>

NameOf(a) == IF a = "5p1" THEN "Alice" ELSE "Bob"

ExtAddrs(w) == IF w \in Wallets THEN ext[w] ELSE {}

\* One account as the wallet adapter lists it: {signer, address, name} under
\* its normalizedAddress, tagged with the wallet it comes from.
WalletAccount(a, w) ==
  [address |-> a, normalizedAddress |-> Normalize(a), signerType |-> Undefined,
   walletType |-> w, name |-> NameOf(a), signer |-> SignerOf(w), balance |-> NoBalance]

\* connectWallet(walletName) and PolkadotWallet(walletType).getAccounts(): the
\* Map normalizedAddress -> account of the addresses the extension reports.
WalletListing(w) ==
  LET present == SelectSeq(AddrOrder, LAMBDA a : a \in ExtAddrs(w))
  IN [i \in 1..Len(present) |->
        [key |-> Normalize(present[i]), val |-> WalletAccount(present[i], w)]]

\* ------------------------------------------------------------------ mount
\* The first render and its effects (lines 50-55, 57-70, 72-76, 92-94,
\* 112-114, 148-151, 177-202), then the render the queued updates cause.
RestoredEntries(st) ==
  IF NoItem(st.accounts) \/ ParseThrows(st.accounts) THEN <<>> ELSE st.accounts.entries

MountSelected0(st) ==
  IF NoItem(st.selectedAccountId) THEN 0 ELSE StringToNumber(st.selectedAccountId)

MountAccounts(st, addr) ==
  LET n == Len(RestoredEntries(st))
      restored == [i \in 1..n |-> [key |-> RestoredEntries(st)[i].key, val |-> i]]
      h == [o \in Oids |-> IF o <= n THEN RestoredEntries(st)[o].val ELSE NullObj]
  IN IF addr = NoAddress THEN PurgeEthereum(restored, h) ELSE restored

MountHeap(st, addr) ==
  LET n == Len(RestoredEntries(st))
      h == [o \in Oids |-> IF o <= n THEN RestoredEntries(st)[o].val ELSE NullObj]
  IN Collect(h, MountAccounts(st, addr), {})

MountSelected(st) == IF NoItem(st.accounts) THEN 0 ELSE MountSelected0(st)

MountStorage(st, addr) ==
  LET s3 == [st EXCEPT !.selectedAccountId = NumberToString(MountSelected0(st))]
      s6 == IF addr = NoAddress THEN FilterStorage(s3) ELSE s3
      s2 == PersistAccounts(s6, MountAccounts(st, addr), MountHeap(st, addr))
  IN PersistSelected(s2, MountSelected0(st), MountSelected(st))

MountTasks(addr, sdkv) == IF sdkv /\ addr # NoAddress THEN {EthTask(addr)} ELSE {}

MountLog(st, addr) ==
  (IF ~NoItem(st.accounts) /\ ParseThrows(st.accounts)
     THEN <<"Failed to restore accounts from localStorage">> ELSE <<>>)
  \o
  (IF addr = NoAddress /\ ~NoItem(st.accounts) /\ ParseThrows(st.accounts)
     THEN <<"Failed to filter Ethereum accounts from localStorage">> ELSE <<>>)

\* A restore effect without its try/catch: the parse error escapes.
MountErrorUncaught(st) ==
  IF ~NoItem(st.accounts) /\ ParseThrows(st.accounts) THEN <<"SyntaxError">> ELSE NoError

\* What mounting raises to its caller: the errors of JSON.parse are caught at
\* lines 66 and 197.
MountError(st) == NoError

Mounted(st, addr, sdkv) ==
  /\ address' = addr
  /\ sdk' = sdkv
  /\ accounts' = MountAccounts(st, addr)
  /\ heap' = MountHeap(st, addr)
  /\ selectedAccountId' = MountSelected(st)
  /\ selectedAccount' = ValueAt(MountAccounts(st, addr), MountSelected(st))
  /\ storage' = MountStorage(st, addr)
  /\ tasks' = MountTasks(addr, sdkv)
  /\ last' = Done("mount", "", MountError(st), MountLog(st, addr), 0)

\* What an earlier session left in localStorage: nothing, an unparsable
\* accounts item, or the snapshot written after a connect of "polkadot-js"
\* that found both of its addresses.
SavedAccount(a) ==
  JsonAccount([WalletAccount(a, "polkadot-js") EXCEPT
                 !.signerType = Polkadot,
                 !.balance = ToBalance(BalanceResponse(Normalize(a), "before"))])

SavedSnapshot ==
  [kind |-> "json",
   entries |-> [i \in 1..Len(AddrOrder) |->
                  [key |-> Normalize(AddrOrder[i]), val |-> SavedAccount(AddrOrder[i])]],
   num |-> 0]

InitStorages ==
  { [accounts |-> AbsentSlot, selectedAccountId |-> AbsentSlot],
    [accounts |-> CorruptSlot, selectedAccountId |-> AbsentSlot],
    [accounts |-> SavedSnapshot, selectedAccountId |-> NumberToString(0)] }

InitExts == [Wallets -> SUBSET PolkaAddrs] \cap { e \in [Wallets -> SUBSET PolkaAddrs] : \A w \in Wallets : e[w] \subseteq WalletUniverse(w) }

Init ==
  \E st \in InitStorages, addr \in EthAddrs \cup {NoAddress}, sdkv \in BOOLEAN, e \in InitExts :
    /\ address = addr
    /\ sdk = sdkv
    /\ accounts = MountAccounts(st, addr)
    /\ heap = MountHeap(st, addr)
    /\ selectedAccountId = MountSelected(st)
    /\ selectedAccount = ValueAt(MountAccounts(st, addr), MountSelected(st))
    /\ storage = MountStorage(st, addr)
    /\ tasks = MountTasks(addr, sdkv)
    /\ last = Done("mount", "", MountError(st), MountLog(st, addr), 0)
    /\ ext = e
    /\ chain = "before"
    /\ events = 0

\* The page is reloaded: in-flight invocations die with the page, localStorage
\* survives, the provider mounts again.
Reload ==
  /\ \E addr \in EthAddrs \cup {NoAddress}, sdkv \in BOOLEAN :
       Mounted(storage, addr, sdkv)
  /\ UNCHANGED <<ext, chain>>
  /\ Event

\* ----------------------------------------------------- registry operations
\* setSelectedAccountId(i), with the persist effect of lines 92-94.
Select(i) ==
  /\ selectedAccountId' = i
  /\ storage' = PersistSelected(storage, selectedAccountId, i)
  /\ last' = Done("select", "", NoError, <<>>, 0)
  /\ UNCHANGED <<address, sdk, accounts, heap, ext, chain, tasks>>
  /\ Event
  /\ Render

\* clearAccounts, lines 78-83, and the effects its two state updates cause.
clearAccounts ==
  LET removed == [accounts |-> AbsentSlot, selectedAccountId |-> AbsentSlot]
  IN /\ accounts' = <<>>
     /\ selectedAccountId' = 0
     /\ heap' = Collect(heap, <<>>, tasks)
     /\ storage' = PersistSelected(PersistAccounts(removed, <<>>, heap), selectedAccountId, 0)
     /\ last' = Done("clear", "", NoError, <<>>, 0)
     /\ UNCHANGED <<address, sdk, ext, chain, tasks>>
     /\ Event
     /\ Render

\* The start of reinitializePolkadotAccountsWithBalance is below; a task of it
\* holds the entries of its `accounts` closure still to visit, the current one
\* first, and its updatedPolkadotAccounts.
ReinitTask(remaining, updated, phase) ==
  [NoTask EXCEPT !.op = "reinit", !.phase = phase, !.snap = remaining, !.updated = updated]

\* for (let [address, account] of accounts) if (account.signerType === Polkadot):
\* the entries from the next Polkadot-style one on.
RECURSIVE SkipToPolkadot(_, _)
SkipToPolkadot(entries, h) ==
  IF entries = <<>> THEN <<>>
  ELSE IF h[Head(entries).val].signerType = Polkadot THEN entries
       ELSE SkipToPolkadot(Tail(entries), h)

\* A buggy final merge that replaces the registry by the refreshed accounts.
ReinitMergeReplace(prev, updated) == updated

\* The updater of lines 138-145.
ReinitMerge(prev, updated) == MapMerge(prev, updated)

\* Lines 120-145 from the loop head on: suspend at the wallet query of the next
\* Polkadot-style account, or leave the loop and merge.
ReinitContinue(rest, entries, updated, h2, fetches, log) ==
  LET remaining == SkipToPolkadot(entries, h2)
  IN IF remaining # <<>>
       THEN /\ tasks' = rest \cup {[ReinitTask(remaining, updated, "wallet") EXCEPT !.fetches = fetches]}
            /\ accounts' = accounts
            /\ heap' = Collect(h2, accounts, tasks')
            /\ storage' = storage
            /\ last' = Done("step", "", NoError, log, 0)
       ELSE /\ tasks' = rest
            /\ accounts' = ReinitMerge(accounts, updated)
            /\ heap' = Collect(h2, accounts', rest)
            /\ storage' = PersistAccounts(storage, accounts', h2)
            /\ last' = Done("reinit", "", NoError, log, fetches)

\* The wallet effect of lines 112-114: updateEthereumWallet() starts when its
\* identity changed (sdk or address changed); line 97 returns without both.
SpawnEthereum(tsks, addr, sdkv) ==
  IF sdkv /\ addr # NoAddress THEN tsks \cup {EthTask(addr)} ELSE tsks

\* useAccount() reports another address (or none): the effects of lines
\* 112-114 and 177-202.
AddressChange(a) ==
  /\ a # address
  /\ Cardinality(SpawnEthereum(tasks, a, sdk)) <= MaxTasks
  /\ address' = a
  /\ tasks' = SpawnEthereum(tasks, a, sdk)
  /\ IF a = NoAddress
       THEN /\ accounts' = PurgeEthereum(accounts, heap)
            /\ heap' = Collect(heap, accounts', tasks')
            /\ storage' = PersistAccounts(FilterStorage(storage), accounts', heap)
            /\ last' = Done("disconnect", "", NoError,
                            IF ~NoItem(storage.accounts) /\ ParseThrows(storage.accounts)
                              THEN <<"Failed to filter Ethereum accounts from localStorage">>
                              ELSE <<>>, Len(accounts) - Len(accounts'))
       ELSE /\ UNCHANGED <<accounts, heap, storage>>
            /\ last' = Done("event", "", NoError, <<>>, 0)
  /\ UNCHANGED <<sdk, selectedAccountId, ext, chain>>
  /\ Event
  /\ Render

\* SdkContext delivers the sdk: the effects of lines 112-114 and 148-151 run,
\* the latter calling reinitialize with the accounts of this render.
SdkReady ==
  /\ ~sdk
  /\ sdk' = TRUE
  /\ Cardinality(SpawnEthereum(tasks, address, TRUE)) < MaxTasks
  /\ IF Len(accounts) = 0
       THEN /\ tasks' = SpawnEthereum(tasks, address, TRUE)
            /\ last' = Done("event", "", NoError, <<>>, 0)
            /\ UNCHANGED <<accounts, heap, storage>>
       ELSE ReinitContinue(SpawnEthereum(tasks, address, TRUE), accounts, <<>>, heap, 0, <<>>)
  /\ UNCHANGED <<address, selectedAccountId, ext, chain>>
  /\ Event
  /\ Render

\* updateEthereumWallet() called through the context value, lines 96-102.
updateEthereumWallet ==
  /\ sdk /\ address # NoAddress
  /\ Cardinality(SpawnEthereum(tasks, address, sdk)) <= MaxTasks
  /\ tasks' = SpawnEthereum(tasks, address, sdk)
  /\ last' = Done("event", "", NoError, <<>>, 0)
  /\ UNCHANGED <<address, sdk, accounts, heap, selectedAccountId, storage, ext, chain>>
  /\ Event
  /\ Render

\* The account object of line 100 with the balance of line 103.
EthereumAccount(a, resp) ==
  [address |-> a, normalizedAddress |-> "", signerType |-> Ethereum,
   walletType |-> Undefined, name |-> "", signer |-> NoSigner, balance |-> ToBalance(resp)]

\* sdk.balance.get resolves in updateEthereumWallet: lines 103-109.
EthBalanceResolve(t) ==
  LET rest == tasks \ {t}
      resp == BalanceResponse(t.key, chain)
      used == Refs(accounts, rest)
      o == FreshOids(used, 1)[1]
      h2 == [heap EXCEPT ![o] = EthereumAccount(t.addr, resp)]
  IN /\ t.op = "eth"
     /\ CanAllocate(used, 1)
     /\ tasks' = rest
     /\ accounts' = MapSet(accounts, t.key, o)
     /\ heap' = Collect(h2, accounts', rest)
     /\ storage' = PersistAccounts(storage, accounts', h2)
     /\ last' = Done("syncEthereum", "", NoError, <<>>, t.fetches)
     /\ UNCHANGED <<address, sdk, selectedAccountId, ext, chain>>
     /\ UNCHANGED events
     /\ Render

BalanceError == <<"balance.get failed">>
WalletError == <<"wallet extension failed">>

\* sdk.balance.get rejects in updateEthereumWallet: the promise of line 113
\* rejects, nothing is written.
EthBalanceReject(t) ==
  /\ t.op = "eth"
  /\ tasks' = tasks \ {t}
  /\ last' = Done("syncEthereum", "", BalanceError, <<>>, t.fetches)
  /\ UNCHANGED <<address, sdk, accounts, heap, selectedAccountId, storage, ext, chain>>
  /\ UNCHANGED events
  /\ Render

\* The user adds accounts to or removes them from an extension.
ExtensionChange(w, S) ==
  /\ S # ext[w]
  /\ ext' = [ext EXCEPT ![w] = S]
  /\ last' = Done("event", "", NoError, <<>>, 0)
  /\ UNCHANGED <<address, sdk, accounts, heap, selectedAccountId, storage, chain, tasks>>
  /\ Event
  /\ Render

\* A block changes the balances on chain.
ChainChange(era) ==
  /\ era # chain
  /\ chain' = era
  /\ last' = Done("event", "", NoError, <<>>, 0)
  /\ UNCHANGED <<address, sdk, accounts, heap, selectedAccountId, storage, ext, tasks>>
  /\ Event
  /\ Render

\* ------------------------------------------ setPolkadotAccountsWithBalance
\* A buggy message that names the default wallet whatever wallet was asked for.
NoAccountsMessageDefault(w) ==
  <<"No ", "polkadot-js", " accounts found or access denied for this domain">>

\* The message of lines 160-161.
NoAccountsMessage(w) == <<"No ", w, " accounts found or access denied for this domain">>

ConnectTask(w) ==
  [NoTask EXCEPT !.op = "connect", !.phase = "wallet", !.wallet = w]

\* setPolkadotAccountsWithBalance(walletName), lines 155-158: returns at once
\* without sdk, else suspends at connectWallet.
setPolkadotAccountsWithBalance(w) ==
  /\ Cardinality(tasks \cup {ConnectTask(w)}) <= MaxTasks
  /\ tasks' = IF sdk THEN tasks \cup {ConnectTask(w)} ELSE tasks
  /\ last' = Done("event", "", NoError, <<>>, 0)
  /\ UNCHANGED <<address, sdk, accounts, heap, selectedAccountId, storage, ext, chain>>
  /\ Event
  /\ Render

\* Line 165 for the account at position i of the batch.
TagPolkadot(batch, i) == [batch EXCEPT ![i].val.signerType = Polkadot]

\* connectWallet resolves, lines 158-166: fail on an empty Map, else tag the
\* first account and suspend at its balance fetch.
ConnectWalletResolve(t) ==
  LET polkadotAccounts == WalletListing(t.wallet)
  IN /\ t.op = "connect" /\ t.phase = "wallet"
     /\ IF Len(polkadotAccounts) = 0
          THEN /\ tasks' = tasks \ {t}
               /\ last' = Done("connect", t.wallet, NoAccountsMessage(t.wallet), <<>>, t.fetches)
          ELSE /\ tasks' = (tasks \ {t}) \cup
                           {[t EXCEPT !.phase = "balance", !.idx = 1, !.fetches = 1,
                                      !.batch = TagPolkadot(polkadotAccounts, 1)]}
               /\ last' = Done("step", "", NoError, <<>>, 0)
     /\ UNCHANGED <<address, sdk, accounts, heap, selectedAccountId, storage, ext, chain>>
     /\ UNCHANGED events
     /\ Render

\* connectWallet rejects: the invocation rejects with that error.
ConnectWalletReject(t) ==
  /\ t.op = "connect" /\ t.phase = "wallet"
  /\ tasks' = tasks \ {t}
  /\ last' = Done("connect", t.wallet, WalletError, <<>>, t.fetches)
  /\ UNCHANGED <<address, sdk, accounts, heap, selectedAccountId, storage, ext, chain>>
  /\ UNCHANGED events
  /\ Render

\* The batch with object ids in place of the objects, and the heap holding them.
BatchEntries(batch, oids) ==
  [i \in 1..Len(batch) |-> [key |-> batch[i].key, val |-> oids[i]]]

BatchHeap(h, batch, oids) ==
  [o \in Oids |->
     IF \E i \in 1..Len(batch) : oids[i] = o
       THEN batch[CHOOSE i \in 1..Len(batch) : oids[i] = o].val
       ELSE h[o]]

\* A buggy merge that keeps the accounts already registered and drops the batch
\* entries whose key exists.
ConnectMergeKeepOld(prev, batch) ==
  MapMerge(prev, SelectSeq(batch, LAMBDA e : ~MapHas(prev, e.key)))

\* The updater of lines 171-174.
ConnectMerge(prev, batch) == MapMerge(prev, batch)

\* A buggy loop that puts each account into the registry as soon as its
\* balance has arrived.
ConnectBalanceResolveEager(t) ==
  LET rest == tasks \ {t}
      resp == BalanceResponse(t.batch[t.idx].key, chain)
      batch == [t.batch EXCEPT ![t.idx].val.balance = ToBalance(resp)]
      used == Refs(accounts, rest)
      o == FreshOids(used, 1)[1]
      h2 == [heap EXCEPT ![o] = batch[t.idx].val]
  IN /\ t.op = "connect" /\ t.phase = "balance"
     /\ CanAllocate(used, 1)
     /\ accounts' = MapSet(accounts, batch[t.idx].key, o)
     /\ heap' = Collect(h2, accounts', rest)
     /\ storage' = PersistAccounts(storage, accounts', h2)
     /\ IF t.idx < Len(batch)
          THEN /\ tasks' = rest \cup
                           {[t EXCEPT !.idx = t.idx + 1, !.fetches = t.fetches + 1,
                                      !.batch = TagPolkadot(batch, t.idx + 1)]}
               /\ last' = Done("step", "", NoError, <<>>, 0)
          ELSE /\ tasks' = rest
               /\ last' = Done("connect", t.wallet, NoError, <<>>, t.fetches)
     /\ UNCHANGED <<address, sdk, selectedAccountId, ext, chain>>
     /\ UNCHANGED events
     /\ Render

\* sdk.balance.get resolves in the loop of lines 164-169: set the balance, then
\* tag the next account and suspend at its fetch, or merge the batch.
ConnectBalanceResolve(t) ==
  LET rest == tasks \ {t}
      resp == BalanceResponse(t.batch[t.idx].key, chain)
      batch == [t.batch EXCEPT ![t.idx].val.balance = ToBalance(resp)]
      used == Refs(accounts, rest)
      oids == FreshOids(used, Len(batch))
      h2 == BatchHeap(heap, batch, oids)
  IN /\ t.op = "connect" /\ t.phase = "balance"
     /\ IF t.idx < Len(batch)
          THEN /\ tasks' = rest \cup
                           {[t EXCEPT !.idx = t.idx + 1, !.fetches = t.fetches + 1,
                                      !.batch = TagPolkadot(batch, t.idx + 1)]}
               /\ last' = Done("step", "", NoError, <<>>, 0)
               /\ UNCHANGED <<accounts, heap, storage>>
          ELSE /\ CanAllocate(used, Len(batch))
               /\ tasks' = rest
               /\ accounts' = ConnectMerge(accounts, BatchEntries(batch, oids))
               /\ heap' = Collect(h2, accounts', rest)
               /\ storage' = PersistAccounts(storage, accounts', h2)
               /\ last' = Done("connect", t.wallet, NoError, <<>>, t.fetches)
     /\ UNCHANGED <<address, sdk, selectedAccountId, ext, chain>>
     /\ UNCHANGED events
     /\ Render

\* sdk.balance.get rejects in the loop: nothing catches it, the invocation
\* rejects and the batch is dropped.
ConnectBalanceReject(t) ==
  /\ t.op = "connect" /\ t.phase = "balance"
  /\ tasks' = tasks \ {t}
  /\ last' = Done("connect", t.wallet, BalanceError, <<>>, t.fetches)
  /\ UNCHANGED <<address, sdk, accounts, heap, selectedAccountId, storage, ext, chain>>
  /\ UNCHANGED events
  /\ Render

\* --------------------------------- reinitializePolkadotAccountsWithBalance
\* Called through the context value with the accounts of the current render,
\* lines 116-120.
reinitializePolkadotAccountsWithBalance ==
  /\ sdk /\ Len(accounts) # 0
  /\ Cardinality(tasks) < MaxTasks
  /\ ReinitContinue(tasks, accounts, <<>>, heap, 0, <<>>)
  /\ UNCHANGED <<address, sdk, selectedAccountId, ext, chain>>
  /\ Event
  /\ Render

ReinitFailedLog == <<"Failed to reinitialize Polkadot account">>

\* A buggy pass whose try/catch encloses the loop: a failure leaves the loop.
ReinitCatchBreak(entries) == <<>>

\* The catch of lines 132-134 is inside the loop body: after a failure on the
\* first of `entries` the loop goes on with the entries after it.
ReinitCatch(entries) == Tail(entries)

\* walletAccounts.get(account.normalizedAddress) is defined.
WalletReports(account) ==
  \E a \in ExtAddrs(account.walletType) : Normalize(a) = account.normalizedAddress

\* account.signer = walletAccount.signer, line 127, on the object itself.
ReinitSetSigner(h, o) == [h EXCEPT ![o].signer = SignerOf(h[o].walletType)]

\* A buggy refresh that adds the fetched balance to the old one.
ReinitAddBalance(h, e, c) ==
  [h EXCEPT ![e.val].balance = h[e.val].balance + ToBalance(BalanceResponse(e.key, c))]

\* account.balance = ..., lines 128-129, on the object itself.
ReinitSetBalance(h, e, c) ==
  [h EXCEPT ![e.val].balance = ToBalance(BalanceResponse(e.key, c))]

\* getAccounts resolves, lines 124-128: on a match set the signer on the
\* account object and suspend at the balance fetch, else go on with the loop.
ReinitWalletResolve(t) ==
  LET rest == tasks \ {t}
      o == Head(t.snap).val
      account == heap[o]
      h2 == ReinitSetSigner(heap, o)
  IN /\ t.op = "reinit" /\ t.phase = "wallet"
     /\ IF WalletReports(account)
          THEN /\ tasks' = rest \cup {[t EXCEPT !.phase = "balance", !.fetches = t.fetches + 1]}
               /\ heap' = Collect(h2, accounts, tasks')
               /\ last' = Done("step", "", NoError, <<>>, 0)
               /\ UNCHANGED <<accounts, storage>>
          ELSE ReinitContinue(rest, Tail(t.snap), t.updated, heap, t.fetches, <<>>)
     /\ UNCHANGED <<address, sdk, selectedAccountId, ext, chain>>
     /\ UNCHANGED events
     /\ Render

\* getAccounts rejects: caught at line 132, the loop goes on.
ReinitWalletReject(t) ==
  /\ t.op = "reinit" /\ t.phase = "wallet"
  /\ ReinitContinue(tasks \ {t}, ReinitCatch(t.snap), t.updated, heap, t.fetches, ReinitFailedLog)
  /\ UNCHANGED <<address, sdk, selectedAccountId, ext, chain>>
  /\ UNCHANGED events
  /\ Render

\* sdk.balance.get resolves, lines 129-130: set the balance on the account
\* object, record it in updatedPolkadotAccounts, go on with the loop.
ReinitBalanceResolve(t) ==
  LET e == Head(t.snap)
      h2 == ReinitSetBalance(heap, e, chain)
  IN /\ t.op = "reinit" /\ t.phase = "balance"
     /\ ReinitContinue(tasks \ {t}, Tail(t.snap), MapSet(t.updated, e.key, e.val), h2,
                       t.fetches, <<>>)
     /\ UNCHANGED <<address, sdk, selectedAccountId, ext, chain>>
     /\ UNCHANGED events
     /\ Render

\* sdk.balance.get rejects: caught at line 132, the loop goes on.
ReinitBalanceReject(t) ==
  /\ t.op = "reinit" /\ t.phase = "balance"
  /\ ReinitContinue(tasks \ {t}, ReinitCatch(t.snap), t.updated, heap, t.fetches, ReinitFailedLog)
  /\ UNCHANGED <<address, sdk, selectedAccountId, ext, chain>>
  /\ UNCHANGED events
  /\ Render

\* One pass of lines 116-146 run from its call to its end with nothing else in
\* between, on registry m and objects h: W are the keys whose wallet query
\* rejects, B the keys whose balance fetch rejects.
RECURSIVE ReinitLoop(_, _, _, _, _, _)
ReinitLoop(entries, updated, m, h, W, B) ==
  IF entries = <<>>
    THEN [accounts |-> ReinitMerge(m, updated),
          heap |-> Collect(h, ReinitMerge(m, updated), {})]
  ELSE LET e == Head(entries)
       IN IF h[e.val].signerType # Polkadot
            THEN ReinitLoop(Tail(entries), updated, m, h, W, B)
          ELSE IF e.key \in W
            THEN ReinitLoop(ReinitCatch(entries), updated, m, h, W, B)
          ELSE IF ~WalletReports(h[e.val])
            THEN ReinitLoop(Tail(entries), updated, m, h, W, B)
          ELSE IF e.key \in B
            THEN ReinitLoop(ReinitCatch(entries), updated, m, ReinitSetSigner(h, e.val), W, B)
          ELSE ReinitLoop(Tail(entries), MapSet(updated, e.key, e.val), m,
                          ReinitSetBalance(ReinitSetSigner(h, e.val), e, chain), W, B)

ReinitPass(m, h, W, B) ==
  IF ~sdk \/ Len(m) = 0 THEN [accounts |-> m, heap |-> h]
  ELSE ReinitLoop(m, <<>>, m, h, W, B)

\* ------------------------------------------------------------ specification
Next ==
  \/ \E i \in SelIndices : Select(i)
  \/ clearAccounts
  \/ \E a \in EthAddrs \cup {NoAddress} : AddressChange(a)
  \/ SdkReady
  \/ updateEthereumWallet
  \/ \E t \in tasks : EthBalanceResolve(t)
  \/ \E t \in tasks : EthBalanceReject(t)
  \/ \E w \in Wallets : \E S \in SUBSET WalletUniverse(w) : ExtensionChange(w, S)
  \/ \E era \in Eras : ChainChange(era)
  \/ \E w \in Wallets : setPolkadotAccountsWithBalance(w)
  \/ \E t \in tasks : ConnectWalletResolve(t)
  \/ \E t \in tasks : ConnectWalletReject(t)
  \/ \E t \in tasks : ConnectBalanceResolve(t)
  \/ \E t \in tasks : ConnectBalanceReject(t)
  \/ reinitializePolkadotAccountsWithBalance
  \/ \E t \in tasks : ReinitWalletResolve(t)
  \/ \E t \in tasks : ReinitWalletReject(t)
  \/ \E t \in tasks : ReinitBalanceResolve(t)
  \/ \E t \in tasks : ReinitBalanceReject(t)
  \/ Reload

Spec == Init /\ [][Next]_vars

\* A pending await is answered: the promise resolves and the invocation runs on.
Answered ==
  \/ \E t \in tasks : EthBalanceResolve(t)
  \/ \E t \in tasks : ConnectWalletResolve(t)
  \/ \E t \in tasks : ConnectBalanceResolve(t)
  \/ \E t \in tasks : ReinitWalletResolve(t)
  \/ \E t \in tasks : ReinitBalanceResolve(t)

\* The steps of behaviours in which the extensions and the oracle are in
\* order: no query of theirs rejects.
NextAnswered ==
  \/ \E i \in SelIndices : Select(i)
  \/ clearAccounts
  \/ \E a \in EthAddrs \cup {NoAddress} : AddressChange(a)
  \/ SdkReady
  \/ updateEthereumWallet
  \/ \E w \in Wallets : \E S \in SUBSET WalletUniverse(w) : ExtensionChange(w, S)
  \/ \E era \in Eras : ChainChange(era)
  \/ \E w \in Wallets : setPolkadotAccountsWithBalance(w)
  \/ reinitializePolkadotAccountsWithBalance
  \/ Reload
  \/ Answered

\* ... and every pending await is answered in the end: the event loop runs the
\* continuation of a settled promise. Nothing obliges the user, the connector
\* or the extensions to act.
LiveSpec == Init /\ [][NextAnswered]_vars /\ WF_vars(Answered)

\* ------------------------------------------------------------------ claims
Records == View(accounts, heap)

NonEthereum(view) == SelectSeq(view, LAMBDA e : e.val.signerType # Ethereum)

EthereumCount == Cardinality({ i \in 1..Len(accounts) : heap[accounts[i].val].signerType = Ethereum })
PolkadotCount == Cardinality({ i \in 1..Len(accounts) : heap[accounts[i].val].signerType = Polkadot })

\* C1: when the Ethereum address becomes absent, the registry after the purge
\* is the registry before it without its Ethereum-style records: the other
\* records keep their keys, every field and their relative order.
C1_DisconnectPurge ==
  [][ (address # NoAddress /\ address' = NoAddress /\ last'.op = "disconnect")
        => View(accounts', heap') = NonEthereum(Records) ]_vars

\* One Ethereum-style record was purged and two Polkadot-style records stayed.
C1_Witness ==
  /\ last.op = "disconnect" /\ last.count = 1
  /\ PolkadotCount = 2 /\ Len(accounts) = 2

\* C2: the registry never holds more than one Ethereum-style record.
C2_AtMostOneEthereum == EthereumCount <= 1

\* C3: no two records of the registry have the same address.
C3_UniqueAddress ==
  \A i, j \in 1..Len(accounts) :
    i # j => heap[accounts[i].val].address # heap[accounts[j].val].address

\* Four records, the last one written by a sync pass.
C3_Witness ==
  /\ Len(accounts) = 4
  /\ last.op \in {"connect", "syncEthereum"} /\ last.err = NoError

\* C4: setSelectedAccountId takes any index, and selectedAccount is always the
\* object at position selectedAccountId of the registry in insertion order,
\* undefined exactly when the registry has no such position.
C4_SelectionSafety ==
  /\ events < MaxEvents => \A i \in SelIndices : ENABLED Select(i)
  /\ IF selectedAccountId >= 0 /\ selectedAccountId < Len(accounts)
       THEN selectedAccount # 0 /\ selectedAccount = accounts[selectedAccountId + 1].val
       ELSE selectedAccount = 0

\* Index 1 was selected and a connect pass then made the registry two long (two
\* events: the selection and the connect call, so the registry was shorter when
\* the index was stored): the stored index now resolves.
C4_Witness ==
  /\ events = 2 /\ last.op = "connect" /\ last.err = NoError
  /\ selectedAccountId = 1 /\ Len(accounts) = 2
  /\ selectedAccount = accounts[2].val

\* C5: after clearAccounts and the effects it causes, the registry is empty,
\* selectedAccountId is 0 and both localStorage slots are absent.
C5_ClearPurgesAll ==
  last.op = "clear" =>
    /\ accounts = <<>>
    /\ selectedAccountId = 0
    /\ NoItem(storage.accounts)
    /\ NoItem(storage.selectedAccountId)

\* C6: when connectWallet reports no address, the invocation raises a failure
\* whose message contains the wallet name, has fetched no balance, is gone (not
\* retried), and registry, selection and persisted snapshot are as before.
C6_EmptyConnect ==
  [][ \A t \in tasks :
        (ConnectWalletResolve(t) /\ ExtAddrs(t.wallet) = {}) =>
          /\ last'.op = "connect" /\ last'.err # NoError
          /\ \E i \in 1..Len(last'.err) : last'.err[i] = t.wallet
          /\ last'.count = 0
          /\ tasks' = tasks \ {t}
          /\ accounts' = accounts /\ heap' = heap
          /\ selectedAccountId' = selectedAccountId
          /\ storage' = storage ]_vars

\* A connect of "talisman" has failed on a registry that holds accounts.
C6_Witness ==
  /\ last.op = "connect" /\ last.wallet = "talisman"
  /\ last.err = NoAccountsMessage("talisman")
  /\ Len(accounts) > 0

\* The registry holds the whole batch of the connect invocation t, tagged and
\* with balances.
BatchApplied(t, view) ==
  \A i \in 1..Len(t.batch) :
    \E j \in 1..Len(view) :
      /\ view[j].key = t.batch[i].key
      /\ view[j].val.address = t.batch[i].val.address
      /\ view[j].val.walletType = t.wallet
      /\ view[j].val.signerType = Polkadot
      /\ view[j].val.balance # NoBalance

\* C7: a step of a connect invocation either leaves the registry as it is or,
\* being its last, puts the whole batch into it; and no record of the registry
\* lacks its signerType or its balance.
C7_BatchAtomic ==
  [][ /\ \A t \in tasks :
           (t.op = "connect" /\ t \notin tasks' /\ last'.op # "mount") =>
             \/ View(accounts', heap') = Records
             \/ t.phase = "balance" /\ BatchApplied(t, View(accounts', heap'))
      /\ \A j \in 1..Len(accounts') :
           /\ heap'[accounts'[j].val].signerType \in {Ethereum, Polkadot}
           /\ heap'[accounts'[j].val].balance # NoBalance ]_vars

\* A connect pass has merged a batch of two accounts.
C7_Witness ==
  /\ last.op = "connect" /\ last.err = NoError /\ last.count = 2
  /\ MapHas(accounts, "n1") /\ MapHas(accounts, "n2")

PolkadotKeys == {"n1", "n2"}

\* C8: a reinitialize pass run to its end right after another one, with the
\* extensions, the chain and the failing calls the same for both, leaves the
\* registry (keys, order, every field) as the first pass left it.
C8_ReinitIdempotent ==
  tasks = {} =>
    \A W \in SUBSET PolkadotKeys : \A B \in SUBSET (PolkadotKeys \ W) :
      LET first == ReinitPass(accounts, heap, W, B)
          second == ReinitPass(first.accounts, first.heap, W, B)
      IN View(second.accounts, second.heap) = View(first.accounts, first.heap)

\* A pass has just ended on a registry with a record the extension reports,
\* and another pass would change nothing.
C8_Witness ==
  /\ last.op = "reinit" /\ last.count >= 1 /\ tasks = {}
  /\ \E i \in 1..Len(accounts) :
       /\ Records[i].val.signerType = Polkadot
       /\ WalletReports(Records[i].val)
       /\ Records[i].val.signer = SignerOf(Records[i].val.walletType)
  /\ LET again == ReinitPass(accounts, heap, {}, {})
     IN View(again.accounts, again.heap) = Records

RestoreFailedLogged ==
  \E i \in 1..Len(last.log) : last.log[i] = "Failed to restore accounts from localStorage"

\* C9: mounting on an accounts item that does not parse gives an empty
\* registry and raises nothing; the failure is logged.
C9_CorruptRestore ==
  (last.op = "mount" /\ ParseThrows(storage.accounts)) =>
    /\ accounts = <<>>
    /\ last.err = NoError
    /\ RestoreFailedLogged

\* The page was reloaded onto an unparsable accounts item.
C9_Witness ==
  /\ last.op = "mount" /\ events >= 1
  /\ ParseThrows(storage.accounts) /\ RestoreFailedLogged

WithoutSigner(view) ==
  [i \in 1..Len(view) |-> [view[i] EXCEPT !.val.signer = NoSigner]]

\* The registry the accounts item restores to: nothing when the item is absent
\* or does not parse.
PersistedRecords ==
  IF storage.accounts.kind = "json" THEN WithoutSigner(storage.accounts.entries) ELSE <<>>

MutatingOps == {"syncEthereum", "connect", "reinit", "disconnect", "clear", "mount"}

\* C10: right after a step that set accounts (a sync pass that ended well, the
\* disconnect purge, clear, the restore) and the effects it caused, the
\* persisted snapshot has the keys, order and non-signer fields of the
\* registry, an absent item counting as the empty registry.
C10_PersistedInSync ==
  (last.op \in MutatingOps /\ last.err = NoError) =>
    PersistedRecords = WithoutSigner(Records)

\* The purge removed the only record: the registry is empty and the item holds
\* an empty list.
C10_Witness ==
  /\ last.op = "disconnect" /\ last.count = 1
  /\ accounts = <<>>
  /\ storage.accounts.kind = "json" /\ storage.accounts.entries = <<>>

\* C11: the snapshot the persist effect writes after a synchronization pass
\* carries no signer in any record, so a record restored from it is without
\* one.
C11_NoPersistedSigner ==
  (last.op \in {"connect", "reinit"} /\ storage.accounts.kind = "json") =>
    \A i \in 1..Len(storage.accounts.entries) :
      storage.accounts.entries[i].val.signer = NoSigner

\* Two account objects that differ at most in signer and balance.
SameButSignerBalance(a, b) ==
  [a EXCEPT !.signer = NoSigner, !.balance = NoBalance] =
    [b EXCEPT !.signer = NoSigner, !.balance = NoBalance]

\* What a pass run on the current registry leaves, compared with the registry:
\* the same keys at the same positions, each record the same but for signer
\* and balance, and no difference at all outside the Polkadot-style records
\* the extension reports.
ReinitFrame(W, B) ==
  LET pass == ReinitPass(accounts, heap, W, B)
      after == View(pass.accounts, pass.heap)
  IN /\ Len(after) = Len(Records)
     /\ \A i \in 1..Len(Records) :
          /\ after[i].key = Records[i].key
          /\ SameButSignerBalance(after[i].val, Records[i].val)
          /\ after[i].val # Records[i].val =>
               (Records[i].val.signerType = Polkadot /\ WalletReports(Records[i].val))

\* C12: a pass of reinitializePolkadotAccountsWithBalance, whichever of its
\* queries fail, changes only signer and balance and only of Polkadot-style
\* records the extension reports; it keeps every key at its position; and no
\* step of a pass changes selectedAccountId or removes or moves a key.
C12_ReinitFrame ==
  /\ [](tasks = {} =>
          \A W \in SUBSET PolkadotKeys : \A B \in SUBSET (PolkadotKeys \ W) :
            ReinitFrame(W, B))
  /\ [][ last'.op \in {"step", "reinit"} =>
           /\ selectedAccountId' = selectedAccountId
           /\ Len(accounts') >= Len(accounts)
           /\ \A i \in 1..Len(accounts) : accounts'[i].key = accounts[i].key ]_vars

\* A pass has ended on a registry holding an Ethereum-style record, a
\* Polkadot-style record the extension reports, now with its live signer, and
\* one it no longer reports.
C12_Witness ==
  /\ last.op = "reinit" /\ last.count >= 1 /\ tasks = {}
  /\ EthereumCount = 1
  /\ \E i \in 1..Len(Records) :
       /\ Records[i].val.signerType = Polkadot
       /\ WalletReports(Records[i].val)
       /\ Records[i].val.signer = SignerOf(Records[i].val.walletType)
  /\ \E i \in 1..Len(Records) :
       /\ Records[i].val.signerType = Polkadot
       /\ ~WalletReports(Records[i].val)

\* C13: while the balance fetch of a pass for an account is still pending, so
\* that it may yet fail or never resolve, the registry is what it was before
\* the step that issued the fetch: the step changed no record.
C13_FailedFetchUnchanged ==
  [][ (\E t \in tasks' \ tasks : t.op = "reinit" /\ t.phase = "balance") =>
        View(accounts', heap') = Records ]_vars

\* C14: a pass in which the wallet query fails for the keys W and the balance
\* fetch for the keys B still gives every other Polkadot-style record the
\* extension reports its live signer and the balance on chain, and raises
\* nothing.
C14_ReinitFailureIsolated ==
  /\ last.op = "reinit" => last.err = NoError
  /\ tasks = {} =>
       \A W \in SUBSET PolkadotKeys : \A B \in SUBSET (PolkadotKeys \ W) :
         LET pass == ReinitPass(accounts, heap, W, B)
             after == View(pass.accounts, pass.heap)
         IN \A i \in 1..Len(Records) :
              (/\ sdk
               /\ Records[i].val.signerType = Polkadot
               /\ WalletReports(Records[i].val)
               /\ Records[i].key \notin W \cup B) =>
                 /\ after[i].val.signer = SignerOf(Records[i].val.walletType)
                 /\ after[i].val.balance = ToBalance(BalanceResponse(Records[i].key, chain))

\* A pass has ended without raising: the first record, which the extension
\* reports, still has the signer it was restored with, so its refresh failed,
\* and the record after it has the live signer and the balance on chain.
C14_Witness ==
  /\ last.op = "reinit" /\ last.err = NoError /\ tasks = {}
  /\ Len(Records) = 2
  /\ WalletReports(Records[1].val) /\ WalletReports(Records[2].val)
  /\ Records[1].val.signer = JsonSigner(SignerOf(Records[1].val.walletType))
  /\ Records[2].val.signer = SignerOf(Records[2].val.walletType)
  /\ Records[2].val.balance = ToBalance(BalanceResponse(Records[2].key, chain))

\* C15: an invocation of setPolkadotAccountsWithBalance that has issued the
\* balance fetch of a second address, the first balance having arrived, does
\* not end by raising a balance-fetch failure to its caller.
C15_ConnectFailureIsolated ==
  (last.op = "connect" /\ last.count >= 2) => last.err # BalanceError

\* C16: with no active Ethereum address and no updateEthereumWallet in
\* flight the registry holds no Ethereum-style record.
C16_NoEthereumWhenAbsent ==
  (address = NoAddress /\ ~(\E t \in tasks : t.op = "eth")) => EthereumCount = 0

\* The registry `view` after the pending updateEthereumWallet `t` gets its
\* balance and runs the updater of lines 105-109.
EthWrite(view, t) ==
  MapSet(view, t.key, EthereumAccount(t.addr, BalanceResponse(t.key, chain)))

\* The registry `view` after the pending setPolkadotAccountsWithBalance `t`
\* gets its last balance and runs the updater of lines 171-174.
ConnectWrite(view, t) ==
  ConnectMerge(view,
    [t.batch EXCEPT ![t.idx].val.balance = ToBalance(BalanceResponse(t.batch[t.idx].key, chain))])

\* C17: with an updateEthereumWallet and a setPolkadotAccountsWithBalance both
\* about to write, the registry as an ordered mapping ends the same whichever
\* of the two writes first.
C17_PassesCommute ==
  \A t1, t2 \in tasks :
    (t1.op = "eth" /\ t2.op = "connect" /\ t2.phase = "balance" /\ t2.idx = Len(t2.batch)) =>
      ConnectWrite(EthWrite(Records, t1), t2) = EthWrite(ConnectWrite(Records, t2), t1)

\* The provider has just mounted with the sdk already there and has restored
\* Polkadot-style records, all of which their extensions report; e external
\* events have happened so far.
RestoredWithSdk(e) ==
  /\ events = e
  /\ last.op = "mount" /\ sdk
  /\ PolkadotCount > 0
  /\ \A i \in 1..Len(Records) :
       Records[i].val.signerType = Polkadot => WalletReports(Records[i].val)

AllSigned ==
  \A i \in 1..Len(Records) :
    Records[i].val.signerType = Polkadot =>
      Records[i].val.signer = SignerOf(Records[i].val.walletType)

\* C18: after a mount that restored Polkadot-style records with the sdk
\* available and the extensions reporting them, every one of them comes to
\* hold its live signer, unless an external event (a user action, a change of
\* the connector or of an extension, a reload) happens first.
C18_RestoredGetSigner ==
  \A e \in 0..MaxEvents : RestoredWithSdk(e) ~> (AllSigned \/ events > e)

\* C19: the step in which a pass of reinitializePolkadotAccountsWithBalance
\* applies its results adds no key to the registry.
C19_ReinitAddsNothing ==
  [][ last'.op = "reinit" => \A i \in 1..Len(accounts') : MapHas(accounts, accounts'[i].key) ]_vars

\* C20: every Ethereum-style record is stored under a key equal to its own
\* address field.
C20_KeyIsAddress ==
  \A i \in 1..Len(Records) :
    Records[i].val.signerType = Ethereum => Records[i].key = Records[i].val.address

====
